---- MODULE Spec2Model ----
(***************************************************************************)
(* SHEGER ET V2.10 (src/bot.py): the tier / payment-verification workflow   *)
(* over the PostgreSQL tables users, payments and campaigns.                *)
(*                                                                         *)
(* Units.  Timestamps are seconds since the database was initialised.      *)
(* Money is in santim (1/100 ETB), the resolution of DECIMAL(15,2).         *)
(* A nullable column holds the empty set for NULL and {v} for the value v. *)
(* Telegram ids are small integers; ADMIN_ID stands for the literal        *)
(* 7714584854 the handlers compare with.                                   *)
(* payments is the table in insertion order: the row id is the index, and  *)
(* created_at (microsecond resolution in the database) grows with it.      *)
(* Columns no modelled statement reads (joined_at, last_active,            *)
(* join_source, ...) and the analytics table are left out.                 *)
(*                                                                         *)
(* Every execute_query call opens its own connection and commits on its    *)
(* own, so one SQL statement is the unit of atomicity.  Spec runs each     *)
(* handler from its first statement to its return (one bot process: the    *)
(* handlers hold the event loop, they await nothing between statements).   *)
(* SpecConc lets admin sessions and the scheduled job of several processes *)
(* on the same database take their statements in turn.  SpecFail lets a    *)
(* statement of verify_payment_v2 raise.  SpecUsage puts the usage         *)
(* counters to use: TierSystem.increment_counter, which no handler calls,  *)
(* is called beside the limit-checked buttons and the scheduled job.       *)
(* SpecProfile lets users come back to /start under a changed Telegram     *)
(* username and full name.  SpecLive is Spec with a clock that keeps       *)
(* advancing and a job queue that keeps running the scheduled job.         *)
(***************************************************************************)
EXTENDS Integers, Sequences, FiniteSets, TLC

\* ------------------------------------------------------------------ bounds
MaxPayments == 2   \* rows the payments table may reach
MaxTicks    == 1   \* times the clock advances
MaxConcPayments == 1   \* rows of payments under SpecConc and SpecFail
MaxRaises   == 1   \* statements that raise under SpecFail
MaxIncrements == 11        \* value monthly_transactions may reach under SpecUsage
MaxListingIncrements == 1  \* value monthly_listings may reach under SpecUsage
MaxProfilePayments == 1   \* payments rows under SpecProfile
MaxLivePayments == 2      \* payments rows under SpecLive
MaxUsagePayments == 1      \* rows of payments under SpecUsage

\* ------------------------------------------------------- program constants
ADMIN_ID      == 0         \* the admin's Telegram id
PAYMENT_TTL   == 86400     \* timedelta(hours=24)
TIER_PERIOD   == 2592000   \* timedelta(days=30)
PRICE_ADVANCED == 14900    \* 149 ETB
PRICE_PRO      == 99900    \* 999 ETB

\* the Telegram users that talk to the bot
UserIds == {1, 2}

Null      == {}
Some(v)   == {v}
Val(s)    == CHOOSE x \in s : TRUE
IsNull(s) == s = {}

MinOf(S) == CHOOSE x \in S : \A y \in S : x <= y

MaxOf(S) == CHOOSE x \in S : \A y \in S : y <= x

\* n / d rounded to the nearest integer, halves away from zero (numeric
\* rounding of a value stored into a DECIMAL(15,2) column)
RoundDiv(n, d) ==
    IF n >= 0 THEN (2 * n + d) \div (2 * d)
    ELSE 0 - ((2 * (0 - n) + d) \div (2 * d))

\* ------------------------------------------------------------ tier catalog
TIERS ==
    [basic    |-> [price |-> 0,              fee |-> 25, commission_rate |-> 10],
     advanced |-> [price |-> PRICE_ADVANCED, fee |-> 15, commission_rate |-> 12],
     pro      |-> [price |-> PRICE_PRO,      fee |-> 8,  commission_rate |-> 15]]

TierNames == {"basic", "advanced", "pro"}

\* tier_limits rows inserted by init_database_v2
tier_limits ==
    [basic    |-> [max_transactions |-> 10,     max_listings |-> 5],
     advanced |-> [max_transactions |-> 100,    max_listings |-> 50],
     pro      |-> [max_transactions |-> 999999, max_listings |-> 999999]]

\* --------------------------------------------------------------- campaigns
\* the rows create_default_campaigns inserts at time 0
DefaultCampaigns ==
    [SHEGERLAUNCH |-> [type |-> "discount", discount_percent |-> Some(100),
                       discount_amount |-> Null, max_uses |-> Some(1000),
                       used_count |-> 0, starts_at |-> Some(0),
                       expires_at |-> Some(TIER_PERIOD), is_active |-> TRUE],
     REFER10      |-> [type |-> "referral", discount_percent |-> Null,
                       discount_amount |-> Some(1490), max_uses |-> Some(10000),
                       used_count |-> 0, starts_at |-> Some(0),
                       expires_at |-> Some(12 * TIER_PERIOD + 5 * PAYMENT_TTL),
                       is_active |-> TRUE],
     UPGRADE50    |-> [type |-> "tier_upgrade", discount_percent |-> Some(50),
                       discount_amount |-> Null, max_uses |-> Some(500),
                       used_count |-> 0, starts_at |-> Some(0),
                       expires_at |-> Some(3 * TIER_PERIOD), is_active |-> TRUE],
     PROBUNDLE    |-> [type |-> "tier_upgrade", discount_percent |-> Some(30),
                       discount_amount |-> Null, max_uses |-> Some(200),
                       used_count |-> 0, starts_at |-> Some(0),
                       expires_at |-> Some(2 * TIER_PERIOD), is_active |-> TRUE]]

\* rows of the campaigns schema an operator adds beside the defaults: a fixed
\* 200 ETB discount that may be used once, and a 50% discount scheduled to
\* start 60 days after the database was initialised
ProvisionedCampaigns ==
    [FLAT200 |-> [type |-> "discount", discount_percent |-> Null,
                  discount_amount |-> Some(20000), max_uses |-> Some(1),
                  used_count |-> 0, starts_at |-> Some(0),
                  expires_at |-> Null, is_active |-> TRUE],
     PRELAUNCH |-> [type |-> "discount", discount_percent |-> Some(50),
                    discount_amount |-> Null, max_uses |-> Null,
                    used_count |-> 0, starts_at |-> Some(2 * TIER_PERIOD),
                    expires_at |-> Null, is_active |-> TRUE]]

CampaignRows == DefaultCampaigns @@ ProvisionedCampaigns


\* ------------------------------------------------------------------ tables
\* a users row as create_or_update_user_v2 inserts it (column defaults of
\* init_database_v2 for the rest)
NewUserRow(username, full_name, referral_code, t) ==
    [username |-> username, full_name |-> full_name,
     plan |-> "basic", balance |-> 0, referral_code |-> referral_code,
     referred_by |-> Null, total_spent |-> 0, total_earned |-> 0,
     last_payment |-> Null,
     tier |-> "basic", tier_expires_at |-> Null,
     monthly_transactions |-> 0, monthly_listings |-> 0]

\* a payments row as create_payment_v2 inserts it
NewPaymentRow(user_id, plan, amount, campaign_code, t) ==
    [user_id |-> user_id, plan |-> plan, amount |-> amount,
     status |-> "pending", reference_code |-> <<plan, user_id, t>>,
     verified_by |-> Null, created_at |-> t, verified_at |-> Null,
     expires_at |-> Some(t + PAYMENT_TTL), campaign_id |-> campaign_code]

\* ------------------------------------------------- verify_payment_v2, by statement
\* the first SELECT without its status filter
SelectLatestPayment(ps, user_id) ==
    LET ids == {i \in DOMAIN ps : ps[i].user_id = user_id}
    IN  IF ids = {} THEN Null ELSE Some(MaxOf(ids))

\* SELECT * FROM payments WHERE user_id = %s AND status = 'pending'
\* ORDER BY created_at DESC LIMIT 1     (NULL when there is no such row)
SelectPendingPayment(ps, user_id) ==
    LET ids == {i \in DOMAIN ps : ps[i].user_id = user_id /\ ps[i].status = "pending"}
    IN  IF ids = {} THEN Null ELSE Some(MaxOf(ids))

\* actual_plan = plan or payment['plan']
ActualPlan(plan, payment) ==
    IF IsNull(plan) THEN payment.plan ELSE Val(plan)

\* actual_amount = float(amount or payment['amount']): None and 0 are both falsy
ActualAmount(amount, payment) ==
    IF IsNull(amount) \/ Val(amount) = 0 THEN payment.amount ELSE Val(amount)

\* SELECT * FROM campaigns WHERE code = %s AND is_active = true
\* AND (expires_at IS NULL OR expires_at > CURRENT_TIMESTAMP)
SelectCampaign(cs, campaign_code, t) ==
    IF /\ ~IsNull(campaign_code)
       /\ Val(campaign_code) \in DOMAIN cs
       /\ cs[Val(campaign_code)].is_active
       /\ \/ IsNull(cs[Val(campaign_code)].expires_at)
          \/ Val(cs[Val(campaign_code)].expires_at) > t
    THEN campaign_code
    ELSE Null

\* a column value Python treats as true: not NULL and not 0
Truthy(col) == ~IsNull(col) /\ Val(col) # 0

\* final_amount after the campaign's discount, in 1/100 santim (the float the
\* code carries before a DECIMAL(15,2) column rounds it)
FinalAmount(campaign, actual_amount) ==
    IF campaign.type = "discount" /\ Truthy(campaign.discount_percent)
    THEN actual_amount * 100 - actual_amount * Val(campaign.discount_percent)
    ELSE IF campaign.type = "discount" /\ Truthy(campaign.discount_amount)
    THEN (actual_amount - Val(campaign.discount_amount)) * 100
    ELSE actual_amount * 100

\* the value a DECIMAL(15,2) column keeps of an amount given in 1/100 santim
ToColumn(final_amount) == RoundDiv(final_amount, 100)

\* UPDATE campaigns SET used_count = used_count + 1 WHERE id = %s
UpdateCampaignUsage(cs, code) ==
    [cs EXCEPT ![code].used_count = @ + 1]

\* UPDATE payments SET status = 'verified', verified_by, verified_at, plan,
\* amount WHERE id = %s
UpdatePaymentVerified(ps, payment_id, admin_id, actual_plan, final_amount, t) ==
    [ps EXCEPT ![payment_id] =
        [@ EXCEPT !.status = "verified", !.verified_by = Some(admin_id),
                  !.verified_at = Some(t), !.plan = actual_plan,
                  !.amount = ToColumn(final_amount)]]

\* new_tier: 'advanced' and 'pro' map to themselves, every other plan to 'basic'
NewTier(actual_plan) ==
    IF actual_plan = "advanced" THEN "advanced"
    ELSE IF actual_plan = "pro" THEN "pro"
    ELSE "basic"

\* UPDATE users SET plan, tier, tier_expires_at, total_spent = total_spent + %s,
\* last_payment, last_active, monthly_transactions = 0, monthly_listings = 0
\* WHERE user_id = %s
UpdateUserTier(us, user_id, actual_plan, new_tier, final_amount, t) ==
    IF user_id \notin DOMAIN us THEN us
    ELSE [us EXCEPT ![user_id] =
            [@ EXCEPT !.plan = actual_plan, !.tier = new_tier,
                      !.tier_expires_at = Some(t + TIER_PERIOD),
                      !.total_spent = @ + ToColumn(final_amount),
                      !.last_payment = Some(t),
                      !.monthly_transactions = 0, !.monthly_listings = 0]]

\* SELECT referred_by FROM users WHERE user_id = %s, kept when truthy
SelectReferredBy(us, user_id) ==
    IF user_id \in DOMAIN us /\ Truthy(us[user_id].referred_by)
    THEN us[user_id].referred_by
    ELSE Null

\* reward_amount = final_amount * 0.10, as the DECIMAL(15,2) columns keep it
RewardAmount(final_amount) == RoundDiv(final_amount * 10, 10000)

\* UPDATE users SET total_earned = total_earned + %s, balance = balance + %s
\* WHERE user_id = %s
CreditReferrer(us, referrer, reward_amount) ==
    IF referrer \notin DOMAIN us THEN us
    ELSE [us EXCEPT ![referrer] =
            [@ EXCEPT !.total_earned = @ + reward_amount,
                      !.balance = @ + reward_amount]]


\* verify_payment_v2 run from its first statement to its return with no other
\* statement in between: the tables it leaves and the (success, message) pair
\* it returns
VerifyPaymentV2(us, ps, cs, user_id, admin_id, amount, plan, t) ==
    LET sel == SelectPendingPayment(ps, user_id)
    IN
    IF IsNull(sel)
    THEN [users |-> us, payments |-> ps, campaigns |-> cs, success |-> FALSE,
          message |-> "No pending payment found"]
    ELSE
    LET payment_id    == Val(sel)
        payment       == ps[payment_id]
        actual_plan   == ActualPlan(plan, payment)
        actual_amount == ActualAmount(amount, payment)
        campaign      == SelectCampaign(cs, payment.campaign_id, t)
        final_amount  == IF IsNull(campaign) THEN actual_amount * 100
                         ELSE FinalAmount(cs[Val(campaign)], actual_amount)
        cs1           == IF IsNull(campaign) THEN cs
                         ELSE UpdateCampaignUsage(cs, Val(campaign))
        ps1           == UpdatePaymentVerified(ps, payment_id, admin_id,
                                               actual_plan, final_amount, t)
        us1           == UpdateUserTier(us, user_id, actual_plan,
                                        NewTier(actual_plan), final_amount, t)
        referrer      == SelectReferredBy(us1, user_id)
        us2           == IF IsNull(referrer) THEN us1
                         ELSE CreditReferrer(us1, Val(referrer),
                                             RewardAmount(final_amount))
    IN [users |-> us2, payments |-> ps1, campaigns |-> cs1, success |-> TRUE,
        message |-> "Payment verified!"]

\* /verify carried out for whoever sends it
VerifyPaymentAnyCaller(us, ps, cs, caller, user_id, args, t) ==
    VerifyPaymentV2(us, ps, cs, user_id, caller, args[1], args[2], t)

\* verify_payment_admin: anyone but the admin is answered "Admin only
\* command."; for the admin USER_ID [AMOUNT] [PLAN] go to verify_payment_v2
VerifyPaymentAdmin(us, ps, cs, caller, user_id, args, t) ==
    IF caller # ADMIN_ID
    THEN [users |-> us, payments |-> ps, campaigns |-> cs, success |-> FALSE,
          message |-> "Admin only command."]
    ELSE VerifyPaymentV2(us, ps, cs, user_id, caller, args[1], args[2], t)

\* /verify whose reply and database state depend on the notification
VerifyCommandStrict(us, ps, cs, caller, user_id, args, sent, t) ==
    LET done == VerifyPaymentAdmin(us, ps, cs, caller, user_id, args, t)
    IN  IF done.success /\ ~sent
        THEN [users |-> us, payments |-> ps, campaigns |-> cs,
              success |-> FALSE, notified |-> FALSE, reply |-> "none"]
        ELSE [users |-> done.users, payments |-> done.payments,
              campaigns |-> done.campaigns, success |-> done.success,
              notified |-> done.success,
              reply |-> IF caller # ADMIN_ID THEN "admin_only"
                        ELSE IF done.success THEN "verified" ELSE "failed"]

\* the /verify handler to its end: after a success the user is sent
\* "PAYMENT VERIFIED" inside try/except-pass (sent tells whether the message
\* went out), then the admin is answered with the outcome
VerifyCommand(us, ps, cs, caller, user_id, args, sent, t) ==
    LET done == VerifyPaymentAdmin(us, ps, cs, caller, user_id, args, t)
    IN  [users |-> done.users, payments |-> done.payments,
         campaigns |-> done.campaigns, success |-> done.success,
         notified |-> done.success /\ sent,
         reply |-> IF caller # ADMIN_ID THEN "admin_only"
                   ELSE IF done.success THEN "verified" ELSE "failed"]

\* ------------------------------------------------------ accounts and intents
\* update.effective_user: <<username, full_name>> as Telegram reports them
Profiles == {<<"abel", "Abel T">>}

\* the same after the user has edited the Telegram profile
ChangedProfiles == Profiles \cup {<<"abel_t", "Abel Tesfaye">>}

\* the random part of generate_referral_code
Suffixes == {"A7K2"}

\* generate_referral_code: "SHEGER", the user id and 4 random characters
generate_referral_code(user_id, suffix) == <<"SHEGER", user_id, suffix>>

RefCodes == {generate_referral_code(u, x) : u \in UserIds, x \in Suffixes}

\* an upsert that writes the whole row: the account starts over
create_or_replace_user(us, user_id, username, full_name, suffix, t) ==
    LET referral_code == IF user_id \in DOMAIN us
                         THEN us[user_id].referral_code
                         ELSE generate_referral_code(user_id, suffix)
    IN [users |-> [u \in DOMAIN us \cup {user_id} |->
                      IF u = user_id
                      THEN NewUserRow(username, full_name, referral_code, t)
                      ELSE us[u]],
        referral_code |-> referral_code]

\* create_or_update_user_v2: the users table it leaves and the code it returns.
\* An existing user gets UPDATE users SET username = %s, full_name = %s,
\* last_active = CURRENT_TIMESTAMP; a new one gets the INSERT
create_or_update_user_v2(us, user_id, username, full_name, suffix, t) ==
    IF user_id \in DOMAIN us
    THEN [users |-> [us EXCEPT ![user_id].username = username,
                               ![user_id].full_name = full_name],
          referral_code |-> us[user_id].referral_code]
    ELSE LET referral_code == generate_referral_code(user_id, suffix)
         IN [users |-> [u \in DOMAIN us \cup {user_id} |->
                           IF u = user_id
                           THEN NewUserRow(username, full_name,
                                           referral_code, t)
                           ELSE us[u]],
             referral_code |-> referral_code]

\* SELECT user_id FROM users WHERE referral_code = %s  (referral_code is UNIQUE)
SelectByReferralCode(us, referral_code) ==
    {u \in DOMAIN us : us[u].referral_code = referral_code}

\* start_v2, its database part: the account is created or touched, then the
\* referral code of the command's argument is resolved and linked
StartV2(us, user_id, username, full_name, referral_code, suffix, t) ==
    LET made     == create_or_update_user_v2(us, user_id, username, full_name,
                                             suffix, t)
        referrer == IF IsNull(referral_code) THEN Null
                    ELSE SelectByReferralCode(made.users, Val(referral_code))
    IN  IF IsNull(referrer) THEN made.users
        ELSE [made.users EXCEPT ![user_id].referred_by = referrer]

\* create_payment_v2: the INSERT fails, and the function returns None, when the
\* user has no users row (foreign key) or the reference code is taken (UNIQUE)
CreatePaymentV2(us, ps, user_id, plan, amount, campaign_code, t) ==
    LET row == NewPaymentRow(user_id, plan, amount, campaign_code, t)
    IN  IF \/ user_id \notin DOMAIN us
           \/ \E i \in DOMAIN ps : ps[i].reference_code = row.reference_code
        THEN [payments |-> ps, reference_code |-> Null]
        ELSE [payments |-> Append(ps, row),
              reference_code |-> Some(row.reference_code)]

\* -------------------------------------------------------------- scheduled_tasks
\* SELECT p.* FROM payments p JOIN users u ON p.user_id = u.user_id
\* WHERE p.status = 'pending' AND p.expires_at < CURRENT_TIMESTAMP
SelectExpired(us, ps, t) ==
    {i \in DOMAIN ps : /\ ps[i].status = "pending"
                       /\ ps[i].user_id \in DOMAIN us
                       /\ ~IsNull(ps[i].expires_at)
                       /\ Val(ps[i].expires_at) < t}

\* UPDATE payments SET status = 'expired' WHERE id = %s
UpdatePaymentExpired(ps, payment_id) ==
    [ps EXCEPT ![payment_id].status = "expired"]

\* datetime.now().day, on a calendar of 30-day months that starts at time 0
DayOfMonth(t) == ((t \div 86400) % 30) + 1

\* TierSystem.increment_counter: UPDATE users SET monthly_transactions =
\* monthly_transactions + 1 WHERE user_id = %s ('payment'), the same on
\* monthly_listings ('listing'), nothing for any other action
increment_counter(us, user_id, action) ==
    IF user_id \notin DOMAIN us THEN us
    ELSE IF action = "payment"
    THEN [us EXCEPT ![user_id].monthly_transactions = @ + 1]
    ELSE IF action = "listing"
    THEN [us EXCEPT ![user_id].monthly_listings = @ + 1]
    ELSE us

\* TierSystem.reset_monthly_counters
reset_monthly_counters(us) ==
    [u \in DOMAIN us |->
        [us[u] EXCEPT !.monthly_transactions = 0, !.monthly_listings = 0]]

\* the reset run on every day of the month
MonthlyResetAlways(us, t) == reset_monthly_counters(us)

\* step 3 of scheduled_tasks: the reset runs when the day of the month is 1
MonthlyReset(us, t) ==
    IF DayOfMonth(t) = 1 THEN reset_monthly_counters(us) ELSE us

\* a scheduled run that expires no payment
SkipSweep(us, ps, t) == ps

\* step 2 of scheduled_tasks run whole: every selected row is updated
ExpireSweep(us, ps, t) ==
    LET expired == SelectExpired(us, ps, t)
    IN  [i \in DOMAIN ps |->
            IF i \in expired THEN UpdatePaymentExpired(ps, i)[i] ELSE ps[i]]

\* -------------------------------------------------------------- read paths
\* TierSystem.get_user_tier: the stored tier, 'basic' for an unknown user
get_user_tier(us, user_id) ==
    IF user_id \in DOMAIN us THEN us[user_id].tier ELSE "basic"

\* check_limit that rejects only above the limit
check_limit_above(us, user_id, action) ==
    IF user_id \notin DOMAIN us
    THEN [allowed |-> FALSE, tier |-> "basic"]
    ELSE LET u  == us[user_id]
             tl == tier_limits[u.tier]
         IN  IF action = "payment" /\ u.monthly_transactions > tl.max_transactions
             THEN [allowed |-> FALSE, tier |-> u.tier]
             ELSE IF action = "listing" /\ u.monthly_listings > tl.max_listings
             THEN [allowed |-> FALSE, tier |-> u.tier]
             ELSE [allowed |-> TRUE, tier |-> u.tier]

\* TierSystem.check_limit: users LEFT JOIN tier_limits ON u.tier = tl.tier
check_limit(us, user_id, action) ==
    IF user_id \notin DOMAIN us
    THEN [allowed |-> FALSE, tier |-> "basic"]
    ELSE LET u  == us[user_id]
             tl == tier_limits[u.tier]
         IN  IF action = "payment" /\ u.monthly_transactions >= tl.max_transactions
             THEN [allowed |-> FALSE, tier |-> u.tier]
             ELSE IF action = "listing" /\ u.monthly_listings >= tl.max_listings
             THEN [allowed |-> FALSE, tier |-> u.tier]
             ELSE [allowed |-> TRUE, tier |-> u.tier]

\* get_plan: the stored plan, inside the 30 days after last_payment and
\* outside them alike; 'basic' for an unknown user
get_plan(us, user_id, t) ==
    IF user_id \notin DOMAIN us THEN "basic"
    ELSE IF /\ ~IsNull(us[user_id].last_payment)
            /\ t - Val(us[user_id].last_payment) <= TIER_PERIOD
    THEN us[user_id].plan
    ELSE us[user_id].plan

\* the fee table of get_fee, in tenths of a percent
FeeByPlan == [basic |-> 25, advanced |-> 15, pro |-> 8]

\* get_fee: FeeByPlan[get_plan(user_id)]; NULL stands for the KeyError of a
\* plan the table has no key for
get_fee(us, user_id, t) ==
    LET plan == get_plan(us, user_id, t)
    IN  IF plan \in DOMAIN FeeByPlan THEN Some(FeeByPlan[plan]) ELSE Null

\* the callback data button_handler_v2 checks the transaction limit for
LimitedButtons == {"upgrade_pro_v2", "upgrade_business_v2", "send_v2"}

\* button_handler_v2 for the limited buttons: the limit check returns early;
\* else the two upgrade buttons call create_payment_v2 with no campaign code
\* and 'send_v2' only reads
ButtonHandlerV2(us, ps, user_id, data, t) ==
    IF data \in LimitedButtons /\ ~check_limit(us, user_id, "payment").allowed
    THEN [users |-> us, payments |-> ps]
    ELSE IF data = "upgrade_pro_v2"
    THEN [users |-> us,
          payments |-> CreatePaymentV2(us, ps, user_id, "advanced",
                                       PRICE_ADVANCED, Null, t).payments]
    ELSE IF data = "upgrade_business_v2"
    THEN [users |-> us,
          payments |-> CreatePaymentV2(us, ps, user_id, "pro",
                                       PRICE_PRO, Null, t).payments]
    ELSE [users |-> us, payments |-> ps]

\* ----------------------------------------------------------------- inputs
\* create_payment_v2(plan, amount, campaign_code): the plan and price of the two
\* upgrade buttons, with and without a campaign code
PaymentInputs ==
    {<<"advanced", PRICE_ADVANCED, Null>>,
     <<"advanced", PRICE_ADVANCED, Some("FLAT200")>>,
     <<"pro",      PRICE_PRO,      Some("SHEGERLAUNCH")>>,
     <<"pro",      PRICE_PRO,      Some("REFER10")>>,
     <<"pro",      PRICE_PRO,      Some("PRELAUNCH")>>}

\* /verify USER_ID [AMOUNT] [PLAN]: the arguments are positional, so a plan
\* comes only with an amount
VerifyArgs == {<<Null, Null>>, <<Some(5000), Some("business")>>}

\* the clock advances by 30 or by 31 days
TickSteps == {TIER_PERIOD, TIER_PERIOD + PAYMENT_TTL}

\* what SpecConc and SpecFail draw from
ConcPaymentInputs == {<<"advanced", PRICE_ADVANCED, Some("REFER10")>>}
ConcVerifyArgs    == {<<Null, Null>>}

\* who may send /verify: the admin and every user
Callers == {ADMIN_ID} \cup UserIds

\* admin sessions that run /verify against the same database
Sessions == {1, 2}

\* ------------------------------------------------------------------- state
VARIABLES
    users,      \* table users: user_id -> row
    payments,   \* table payments: sequence of rows, id = index
    campaigns,  \* table campaigns: code -> row
    now,        \* CURRENT_TIMESTAMP / datetime.now()
    ticks,      \* how often the clock has advanced
    sessions,   \* per admin session: where its verify_payment_v2 call stands
    sweeper,    \* where the scheduled_tasks run stands
    raises      \* how many statements have raised

vars == <<users, payments, campaigns, now, ticks, sessions, sweeper, raises>>

db == <<users, payments, campaigns>>

\* a session outside verify_payment_v2; result is what its last call returned
IdleSession(result) ==
    [pc |-> "idle", user_id |-> 0, payment_id |-> 0, actual_plan |-> "",
     actual_amount |-> 0, campaign_code |-> Null, campaign |-> Null,
     final_amount |-> 0, referrer |-> Null, result |-> result]

IdleSweeper == [pc |-> "idle", expired |-> {}]

AllIdle == (\A s \in Sessions : sessions[s].pc = "idle") /\ sweeper.pc = "idle"

Init ==
    /\ users = <<>>
    /\ payments = <<>>
    /\ campaigns = CampaignRows
    /\ now = 0
    /\ ticks = 0
    /\ sessions = [s \in Sessions |-> IdleSession("none")]
    /\ sweeper = IdleSweeper
    /\ raises = 0

\* ----------------------------------------------------- whole-handler actions
Tick ==
    \E d \in TickSteps :
        /\ ticks < MaxTicks
        /\ now' = now + d
        /\ ticks' = ticks + 1
        /\ UNCHANGED <<users, payments, campaigns, sessions, sweeper, raises>>

\* /start [REFERRAL_CODE], sent under one of the given Telegram profiles
Start(profiles) ==
    \E user_id \in UserIds, profile \in profiles, suffix \in Suffixes,
       referral_code \in {Null} \cup {Some(c) : c \in RefCodes} :
        /\ users' = StartV2(users, user_id, profile[1], profile[2],
                            referral_code, suffix, now)
        /\ UNCHANGED <<payments, campaigns, now, ticks, sessions, sweeper, raises>>

CreatePayment(inputs, max_rows) ==
    \E user_id \in UserIds, pa \in inputs :
        /\ Len(payments) < max_rows
        /\ payments' = CreatePaymentV2(users, payments, user_id, pa[1], pa[2],
                                       pa[3], now).payments
        /\ UNCHANGED <<users, campaigns, now, ticks, sessions, sweeper, raises>>

\* /verify, verify_payment_admin run whole
Verify ==
    \E caller \in Callers, user_id \in UserIds, args \in VerifyArgs,
       sent \in BOOLEAN :
        LET done == VerifyCommand(users, payments, campaigns, caller,
                                  user_id, args, sent, now)
        IN  /\ users' = done.users
            /\ payments' = done.payments
            /\ campaigns' = done.campaigns
            /\ UNCHANGED <<now, ticks, sessions, sweeper, raises>>

\* scheduled_tasks run whole
Scheduled ==
    /\ payments' = ExpireSweep(users, payments, now)
    /\ users' = MonthlyReset(users, now)
    /\ UNCHANGED <<campaigns, now, ticks, sessions, sweeper, raises>>

Next ==
    \/ Tick
    \/ Start(Profiles)
    \/ CreatePayment(PaymentInputs, MaxPayments)
    \/ Verify
    \/ Scheduled

Spec == Init /\ [][Next]_vars

\* ------------------------------------------ verify_payment_v2, one statement a step
\* the first SELECT and the locals computed from the row it returns
VerifyBegin(s, args_set) ==
    \E user_id \in UserIds, args \in args_set :
        /\ sessions[s].pc = "idle"
        /\ LET sel == SelectPendingPayment(payments, user_id)
           IN  sessions' = [sessions EXCEPT ![s] =
                 IF IsNull(sel) THEN IdleSession("no_pending")
                 ELSE LET payment == payments[Val(sel)]
                          actual_amount == ActualAmount(args[1], payment)
                      IN [pc |-> IF IsNull(payment.campaign_id)
                                 THEN "update_payment" ELSE "select_campaign",
                          user_id |-> user_id, payment_id |-> Val(sel),
                          actual_plan |-> ActualPlan(args[2], payment),
                          actual_amount |-> actual_amount,
                          campaign_code |-> payment.campaign_id,
                          campaign |-> Null,
                          final_amount |-> actual_amount * 100,
                          referrer |-> Null, result |-> "none"]]
        /\ UNCHANGED <<users, payments, campaigns, now, ticks, sweeper, raises>>

\* SELECT * FROM campaigns ..., and the discount of the row it returns
VerifySelectCampaign(s) ==
    /\ sessions[s].pc = "select_campaign"
    /\ LET campaign == SelectCampaign(campaigns, sessions[s].campaign_code, now)
       IN  sessions' = [sessions EXCEPT ![s] =
             IF IsNull(campaign) THEN [@ EXCEPT !.pc = "update_payment"]
             ELSE [@ EXCEPT !.pc = "update_campaign", !.campaign = campaign,
                            !.final_amount = FinalAmount(campaigns[Val(campaign)],
                                                sessions[s].actual_amount)]]
    /\ UNCHANGED <<users, payments, campaigns, now, ticks, sweeper, raises>>

VerifyUpdateCampaign(s) ==
    /\ sessions[s].pc = "update_campaign"
    /\ campaigns' = UpdateCampaignUsage(campaigns, Val(sessions[s].campaign))
    /\ sessions' = [sessions EXCEPT ![s].pc = "update_payment"]
    /\ UNCHANGED <<users, payments, now, ticks, sweeper, raises>>

VerifyUpdatePayment(s) ==
    /\ sessions[s].pc = "update_payment"
    /\ payments' = UpdatePaymentVerified(payments, sessions[s].payment_id, ADMIN_ID,
                       sessions[s].actual_plan, sessions[s].final_amount, now)
    /\ sessions' = [sessions EXCEPT ![s].pc = "update_user"]
    /\ UNCHANGED <<users, campaigns, now, ticks, sweeper, raises>>

VerifyUpdateUser(s) ==
    /\ sessions[s].pc = "update_user"
    /\ users' = UpdateUserTier(users, sessions[s].user_id, sessions[s].actual_plan,
                    NewTier(sessions[s].actual_plan), sessions[s].final_amount, now)
    /\ sessions' = [sessions EXCEPT ![s].pc = "select_referrer"]
    /\ UNCHANGED <<payments, campaigns, now, ticks, sweeper, raises>>

VerifySelectReferrer(s) ==
    /\ sessions[s].pc = "select_referrer"
    /\ LET referrer == SelectReferredBy(users, sessions[s].user_id)
       IN  sessions' = [sessions EXCEPT ![s] =
             IF IsNull(referrer) THEN IdleSession("ok")
             ELSE [@ EXCEPT !.pc = "credit_referrer", !.referrer = referrer]]
    /\ UNCHANGED <<users, payments, campaigns, now, ticks, sweeper, raises>>

VerifyCreditReferrer(s) ==
    /\ sessions[s].pc = "credit_referrer"
    /\ users' = CreditReferrer(users, Val(sessions[s].referrer),
                               RewardAmount(sessions[s].final_amount))
    /\ sessions' = [sessions EXCEPT ![s] = IdleSession("ok")]
    /\ UNCHANGED <<payments, campaigns, now, ticks, sweeper, raises>>

\* the statement the session is about to run raises: execute_query rolls back
\* that statement alone, verify_payment_v2 catches and returns (False, "Error: ...")
VerifyRaise(s) ==
    /\ sessions[s].pc # "idle"
    /\ raises < MaxRaises
    /\ raises' = raises + 1
    /\ sessions' = [sessions EXCEPT ![s] = IdleSession("error")]
    /\ UNCHANGED <<users, payments, campaigns, now, ticks, sweeper>>

VerifyStep(s) ==
    \/ VerifySelectCampaign(s)
    \/ VerifyUpdateCampaign(s)
    \/ VerifyUpdatePayment(s)
    \/ VerifyUpdateUser(s)
    \/ VerifySelectReferrer(s)
    \/ VerifyCreditReferrer(s)

\* -------------------------------------------- scheduled_tasks, one statement a step
SweepSelect ==
    /\ sweeper.pc = "idle"
    /\ sweeper' = [pc |-> "update", expired |-> SelectExpired(users, payments, now)]
    /\ UNCHANGED <<users, payments, campaigns, now, ticks, sessions, raises>>

SweepUpdate ==
    /\ sweeper.pc = "update"
    /\ \E payment_id \in sweeper.expired :
        /\ payments' = UpdatePaymentExpired(payments, payment_id)
        /\ sweeper' = [sweeper EXCEPT !.expired = @ \ {payment_id}]
    /\ UNCHANGED <<users, campaigns, now, ticks, sessions, raises>>

SweepFinish ==
    /\ sweeper.pc = "update"
    /\ sweeper.expired = {}
    /\ users' = MonthlyReset(users, now)
    /\ sweeper' = IdleSweeper
    /\ UNCHANGED <<payments, campaigns, now, ticks, sessions, raises>>

\* admin sessions and the scheduled job, statement by statement
NextConc ==
    \/ Tick
    \/ Start(Profiles)
    \/ CreatePayment(ConcPaymentInputs, MaxConcPayments)
    \/ \E s \in Sessions : VerifyBegin(s, ConcVerifyArgs)
    \/ \E s \in Sessions : VerifyStep(s)
    \/ SweepSelect
    \/ SweepUpdate
    \/ SweepFinish

SpecConc == Init /\ [][NextConc]_vars

\* one session, one statement at a time, and any statement may raise
NextFail ==
    \/ Tick
    \/ Start(Profiles)
    \/ CreatePayment(ConcPaymentInputs, MaxConcPayments)
    \/ VerifyBegin(1, ConcVerifyArgs)
    \/ VerifyStep(1)
    \/ VerifyRaise(1)

SpecFail == Init /\ [][NextFail]_vars

\* ----------------------------------------------------- usage counters in use
\* a caller of TierSystem.increment_counter
IncrementCounter ==
    \E user_id \in UserIds, action \in {"payment", "listing"} :
        /\ user_id \in DOMAIN users
        /\ action = "payment" => users[user_id].monthly_transactions < MaxIncrements
        /\ action = "listing" => users[user_id].monthly_listings < MaxListingIncrements
        /\ users' = increment_counter(users, user_id, action)
        /\ UNCHANGED <<payments, campaigns, now, ticks, sessions, sweeper, raises>>

\* a press of one of the limited buttons
Button ==
    \E user_id \in UserIds, data \in LimitedButtons :
        /\ Len(payments) < MaxUsagePayments
        /\ LET done == ButtonHandlerV2(users, payments, user_id, data, now)
           IN  /\ users' = done.users
               /\ payments' = done.payments
        /\ UNCHANGED <<campaigns, now, ticks, sessions, sweeper, raises>>

NextUsage ==
    \/ Tick
    \/ Start(Profiles)
    \/ IncrementCounter
    \/ Button
    \/ Scheduled

SpecUsage == Init /\ [][NextUsage]_vars

\* ------------------------------------------------- users who change their name
NextProfile ==
    \/ Start(ChangedProfiles)
    \/ CreatePayment(ConcPaymentInputs, MaxProfilePayments)
    \/ Verify

SpecProfile == Init /\ [][NextProfile]_vars

\* ------------------------------------------------------ the clock keeps running
\* Time advances and the job queue keeps calling scheduled_tasks (run_repeating,
\* interval 3600).  The clock of the model stops after MaxTicks steps, so a
\* payment is created only while a step is still to come.
NextLive ==
    \/ Tick
    \/ Start(Profiles)
    \/ (ticks < MaxTicks /\ CreatePayment(ConcPaymentInputs, MaxLivePayments))
    \/ Verify
    \/ Scheduled

SpecLive == Init /\ [][NextLive]_vars /\ WF_vars(Tick) /\ WF_vars(Scheduled)

\* ================================================================== claims
PendingRows(ps, user_id) ==
    {i \in DOMAIN ps : ps[i].user_id = user_id /\ ps[i].status = "pending"}

\* the rows of a user that a verification has stamped
VerifiedRows(ps, user_id) ==
    {i \in DOMAIN ps : ps[i].user_id = user_id /\ ~IsNull(ps[i].verified_by)}

RECURSIVE SumAmounts(_, _)
SumAmounts(ps, ids) ==
    IF ids = {} THEN 0
    ELSE LET i == CHOOSE x \in ids : TRUE
         IN  ps[i].amount + SumAmounts(ps, ids \ {i})

RECURSIVE SumRewards(_, _)
SumRewards(ps, ids) ==
    IF ids = {} THEN 0
    ELSE LET i == CHOOSE x \in ids : TRUE
         IN  RewardAmount(ps[i].amount * 100) + SumRewards(ps, ids \ {i})

RECURSIVE SumEarned(_, _)
SumEarned(us, ids) ==
    IF ids = {} THEN 0
    ELSE LET u == CHOOSE x \in ids : TRUE
         IN  us[u].total_earned + SumEarned(us, ids \ {u})

\* C1: a payment row whose status is 'verified' or 'expired' keeps that status
\* in every later step of verify_payment_v2 and of the expiry sweep, whatever
\* the interleaving of their statements.
C1_StatusTerminal ==
    [][\A i \in DOMAIN payments :
          payments[i].status \in {"verified", "expired"}
              => payments'[i].status = payments[i].status]_vars

\* C2: when two verify_payment_v2 calls read the same pending payment, the
\* payment counts once: the owner's total_spent is at most the sum of the
\* amounts of the rows verified for them, and the accounts have together earned
\* at most one referral reward per verified row.
C2_VerifiedOnce ==
    /\ \A u \in DOMAIN users :
          users[u].total_spent <= SumAmounts(payments, VerifiedRows(payments, u))
    /\ SumEarned(users, DOMAIN users)
          <= SumRewards(payments, {i \in DOMAIN payments :
                                      ~IsNull(payments[i].verified_by)})

\* C3: the steps of a verification take effect together: once the call has
\* returned, whether normally or after a statement raised, a user with a
\* verified payment has had the tier update (tier_expires_at set, total_spent
\* the sum of the verified amounts).
C3_AllOrNothing ==
    sessions[1].pc = "idle" =>
        \A u \in DOMAIN users :
            VerifiedRows(payments, u) # {} =>
                /\ ~IsNull(users[u].tier_expires_at)
                /\ users[u].total_spent
                      = SumAmounts(payments, VerifiedRows(payments, u))

\* C4: for a user with exactly one pending payment, verify_payment_v2 called
\* twice in sequence succeeds the first time and fails the second time, and
\* the second call changes no row: no balance, total_earned or total_spent
\* moves, so the referrer is credited at most once.
C4_SecondVerifyNoOp ==
    \A u \in DOMAIN users :
        Cardinality(PendingRows(payments, u)) = 1 =>
            \A a1 \in VerifyArgs, a2 \in VerifyArgs :
                LET r1 == VerifyPaymentV2(users, payments, campaigns, u,
                                          ADMIN_ID, a1[1], a1[2], now)
                    r2 == VerifyPaymentV2(r1.users, r1.payments, r1.campaigns, u,
                                          ADMIN_ID, a2[1], a2[2], now)
                IN  /\ r1.success
                    /\ ~r2.success
                    /\ r2.users = r1.users
                    /\ r2.payments = r1.payments
                    /\ r2.campaigns = r1.campaigns

\* a referred user has exactly one pending payment, and verifying it credits
\* the referrer a positive reward
C4_Witness ==
    \E u \in DOMAIN users :
        /\ Cardinality(PendingRows(payments, u)) = 1
        /\ ~IsNull(users[u].referred_by)
        /\ Val(users[u].referred_by) \in DOMAIN users
        /\ LET r == Val(users[u].referred_by)
               r1 == VerifyPaymentV2(users, payments, campaigns, u,
                                     ADMIN_ID, Null, Null, now)
           IN  r1.users[r].total_earned > users[r].total_earned

\* C5: every read path reports 'basic' for a user whose tier_expires_at is
\* null or in the past.
C5_ExpiredReadsBasic ==
    \A u \in DOMAIN users :
        (IsNull(users[u].tier_expires_at) \/ now > Val(users[u].tier_expires_at))
            => /\ get_user_tier(users, u) = "basic"
               /\ check_limit(users, u, "payment").tier = "basic"
               /\ get_plan(users, u, now) = "basic"
               /\ get_fee(users, u, now) = Some(TIERS["basic"].fee)

\* C6: tier_expires_at is non-null exactly when the stored tier is not 'basic'.
C6_ExpiryIffPaidTier ==
    \A u \in DOMAIN users :
        ~IsNull(users[u].tier_expires_at) <=> users[u].tier # "basic"

\* C7: get_fee returns for every existing account, its value is the fee of
\* the account's tier, and the stored plan equals the stored tier.
C7_FeeOfTier ==
    \A u \in DOMAIN users :
        /\ users[u].plan = users[u].tier
        /\ get_fee(users, u, now) = Some(TIERS[users[u].tier].fee)

\* C8: when a payment of a referred user is verified, the referrer's balance
\* and total_earned each grow by final_amount times the commission rate of
\* the referrer's own tier.
C8_TieredCommission ==
    [][\A i \in DOMAIN payments :
          (payments[i].status = "pending" /\ payments'[i].status = "verified")
          => LET u == payments[i].user_id
             IN  (u \in DOMAIN users /\ ~IsNull(users'[u].referred_by)
                  /\ Val(users'[u].referred_by) \in DOMAIN users)
                 => LET r      == Val(users'[u].referred_by)
                        reward == RoundDiv(payments'[i].amount
                                     * TIERS[users'[r].tier].commission_rate, 100)
                    IN  /\ users'[r].balance - users[r].balance = reward
                        /\ users'[r].total_earned - users[r].total_earned = reward
      ]_vars

\* the discount a campaign row grants on an amount: its percentage when set,
\* else its fixed amount
ClaimedDiscount(campaign, actual_amount) ==
    IF campaign.type # "discount" THEN 0
    ELSE IF Truthy(campaign.discount_percent)
    THEN RoundDiv(actual_amount * Val(campaign.discount_percent), 100)
    ELSE IF Truthy(campaign.discount_amount)
    THEN Val(campaign.discount_amount)
    ELSE 0

\* C9: the amount a verification stores is max(0, amount - discount) for the
\* amount the call resolved, so it is never negative.
C9_FinalAmountFloor ==
    [][\A i \in DOMAIN payments :
          (payments[i].status = "pending" /\ payments'[i].status = "verified")
          => \E args \in VerifyArgs :
                LET base     == ActualAmount(args[1], payments[i])
                    campaign == SelectCampaign(campaigns, payments[i].campaign_id, now)
                    discount == IF IsNull(campaign) THEN 0
                                ELSE ClaimedDiscount(campaigns[Val(campaign)], base)
                IN  /\ payments'[i].amount >= 0
                    /\ payments'[i].amount
                          = (IF base - discount > 0 THEN base - discount ELSE 0)
      ]_vars

\* C10: a campaign with max_uses set never has used_count above max_uses.
C10_UsageCap ==
    \A c \in DOMAIN campaigns :
        ~IsNull(campaigns[c].max_uses)
            => campaigns[c].used_count <= Val(campaigns[c].max_uses)

\* C11: verify_payment_v2 counts a use of a campaign (and applies its
\* discount) only when the campaign is active and now lies inside its window,
\* starts_at <= now <= expires_at; a campaign that has not started is not
\* applied.
C11_ActiveWindow ==
    [][\A c \in DOMAIN campaigns :
          campaigns'[c].used_count # campaigns[c].used_count
              => /\ campaigns[c].is_active
                 /\ IsNull(campaigns[c].starts_at)
                       \/ Val(campaigns[c].starts_at) <= now
                 /\ IsNull(campaigns[c].expires_at)
                       \/ now <= Val(campaigns[c].expires_at)]_vars

\* the referrer of an account, as a set: empty when there is none
ReferrerOf(us, u) ==
    IF u \in DOMAIN us THEN us[u].referred_by ELSE {}

\* the accounts reached from the accounts S over 1 to n referred_by links
RECURSIVE Ancestors(_, _, _)
Ancestors(us, S, n) ==
    IF n = 0 THEN {}
    ELSE LET P == UNION {ReferrerOf(us, u) : u \in S}
         IN  P \cup Ancestors(us, P, n - 1)

\* C12: the referred_by relation is acyclic: no account is its own referrer
\* and no chain of referred_by links leads from an account back to itself.
C12_ReferralAcyclic ==
    \A u \in DOMAIN users :
        u \notin Ancestors(users, {u}, Cardinality(UserIds))

\* C13: referred_by is set at most once: once it is non-null no later step
\* changes it.
C13_ReferredByOnce ==
    [][\A u \in DOMAIN users :
          ~IsNull(users[u].referred_by)
              => users'[u].referred_by = users[u].referred_by]_vars

\* C14: whatever the sequence of increment_counter calls, an account's
\* monthly_transactions never exceeds the max_transactions of its tier.
C14_CounterWithinLimit ==
    \A u \in DOMAIN users :
        users[u].monthly_transactions <= tier_limits[users[u].tier].max_transactions

AtTransactionLimit(us, u) ==
    us[u].monthly_transactions = tier_limits[us[u].tier].max_transactions

\* C15: for an account whose monthly_transactions equals its tier's
\* max_transactions, check_limit(user, 'payment') returns allowed = False and
\* button_handler_v2 for each limited button creates no payment and changes
\* no account.
C15_RejectedAtLimit ==
    \A u \in DOMAIN users :
        AtTransactionLimit(users, u) =>
            /\ ~check_limit(users, u, "payment").allowed
            /\ \A data \in LimitedButtons :
                  ButtonHandlerV2(users, payments, u, data, now)
                      = [users |-> users, payments |-> payments]

\* an account at its limit presses a button while the payments table has
\* room and holds no payment of the account
C15_Witness ==
    \E u \in DOMAIN users :
        /\ AtTransactionLimit(users, u)
        /\ Len(payments) < MaxUsagePayments
        /\ \A i \in DOMAIN payments : payments[i].user_id # u

\* C16: when a user has two pending payments for different tiers, one
\* verify_payment_v2 call (no amount or plan given) verifies the one created
\* last and makes its tier the user's tier; the older payment is left as it
\* is, 'pending', and a sweep marks it 'expired' once its expires_at has
\* passed, not before.
C16_LatestPendingVerified ==
    \A u \in DOMAIN users :
        \A i \in PendingRows(payments, u), j \in PendingRows(payments, u) :
            (/\ PendingRows(payments, u) = {i, j}
             /\ i < j
             /\ payments[i].plan # payments[j].plan)
            => LET r  == VerifyPaymentV2(users, payments, campaigns, u,
                                         ADMIN_ID, Null, Null, now)
                   t1 == Val(payments[i].expires_at)
               IN  /\ r.success
                   /\ r.payments[j].status = "verified"
                   /\ r.users[u].tier = payments[j].plan
                   /\ r.payments[i] = payments[i]
                   /\ ExpireSweep(r.users, r.payments, t1)[i].status = "pending"
                   /\ ExpireSweep(r.users, r.payments, t1 + 1)[i].status = "expired"
                   /\ ExpireSweep(r.users, r.payments, t1 + 1)[j].status = "verified"

\* a user has exactly two pending payments, for different tiers
C16_Witness ==
    \E u \in DOMAIN users :
        \E i \in PendingRows(payments, u), j \in PendingRows(payments, u) :
            /\ PendingRows(payments, u) = {i, j}
            /\ i < j
            /\ payments[i].plan # payments[j].plan

\* the account fields a sweep is to leave alone
AccountState(us, u) ==
    <<us[u].tier, us[u].tier_expires_at, us[u].balance, us[u].total_spent>>

UsageCounters(us, u) ==
    <<us[u].monthly_transactions, us[u].monthly_listings>>

\* the pending payments of existing accounts whose expires_at has passed
OverduePending(us, ps, t) ==
    {i \in DOMAIN ps : /\ ps[i].status = "pending"
                       /\ ps[i].user_id \in DOMAIN us
                       /\ ~IsNull(ps[i].expires_at)
                       /\ Val(ps[i].expires_at) < t}

\* C17 as stated: a scheduled run after a pending payment's expires_at sets
\* the payment 'expired' and leaves the owner's tier, tier_expires_at,
\* balance, total_spent, monthly_transactions and monthly_listings unchanged.
C17_SweepLeavesAccount ==
    [][Scheduled =>
          \A i \in OverduePending(users, payments, now) :
              LET u == payments[i].user_id
              IN  /\ payments'[i].status = "expired"
                  /\ AccountState(users', u) = AccountState(users, u)
                  /\ UsageCounters(users', u) = UsageCounters(users, u)]_vars

\* C17 amended: a scheduled run after a pending payment's expires_at sets the
\* payment 'expired' and leaves the owner's tier, tier_expires_at, balance and
\* total_spent unchanged; the owner's monthly counters are unchanged too,
\* except in a run on the 1st of the month, which resets them to 0.
C17_SweepResetsOnFirst ==
    [][Scheduled =>
          \A i \in OverduePending(users, payments, now) :
              LET u == payments[i].user_id
              IN  /\ payments'[i].status = "expired"
                  /\ AccountState(users', u) = AccountState(users, u)
                  /\ UsageCounters(users', u)
                        = (IF DayOfMonth(now) = 1 THEN <<0, 0>>
                           ELSE UsageCounters(users, u))]_vars

\* a payment has been swept on a day that is not the 1st of the month, and
\* its owner has a transaction on the monthly counter
C17_Witness ==
    \E i \in DOMAIN payments :
        /\ payments[i].status = "expired"
        /\ DayOfMonth(now) # 1
        /\ payments[i].user_id \in DOMAIN users
        /\ users[payments[i].user_id].monthly_transactions > 0

\* C18: a create_payment_v2 call for an account adds exactly one payment row,
\* with status 'pending' and expires_at = creation time + 24 hours, and
\* changes no field of any account.
C18_CreateAddsOnePending ==
    [][/\ \A u \in DOMAIN users, pa \in PaymentInputs :
             LET r == CreatePaymentV2(users, payments, u, pa[1], pa[2], pa[3], now)
                 n == Len(payments)
             IN  /\ Len(r.payments) = n + 1
                 /\ SubSeq(r.payments, 1, n) = payments
                 /\ r.payments[n + 1].status = "pending"
                 /\ r.payments[n + 1].expires_at = Some(now + PAYMENT_TTL)
       /\ CreatePayment(PaymentInputs, MaxPayments) => users' = users]_vars

\* C19: every create_payment_v2 call for an account stores a payment whose
\* reference code differs from every other payment's, also when the same user
\* asks for the same plan twice within one clock second.
C19_ReferenceCodesDistinct ==
    /\ \A i \in DOMAIN payments, j \in DOMAIN payments :
          i # j => payments[i].reference_code # payments[j].reference_code
    /\ \A u \in DOMAIN users, pa \in PaymentInputs :
          LET r == CreatePaymentV2(users, payments, u, pa[1], pa[2], pa[3], now)
          IN  /\ ~IsNull(r.reference_code)
              /\ Len(r.payments) = Len(payments) + 1
              /\ \A i \in DOMAIN payments :
                    payments[i].reference_code # Val(r.reference_code)

\* C20: a /verify command from anyone but the admin changes no payment, no
\* account and no campaign, for every argument list.
C20_NonAdminRejected ==
    \A caller \in Callers \ {ADMIN_ID}, u \in UserIds, args \in VerifyArgs :
        LET r == VerifyPaymentAdmin(users, payments, campaigns, caller, u,
                                    args, now)
        IN  /\ ~r.success
            /\ r.users = users
            /\ r.payments = payments
            /\ r.campaigns = campaigns

\* a user with a pending payment, which the admin's /verify would verify,
\* sends /verify for themselves
C20_Witness ==
    \E u \in DOMAIN users :
        /\ PendingRows(payments, u) # {}
        /\ u # ADMIN_ID
        /\ VerifyPaymentAdmin(users, payments, campaigns, ADMIN_ID, u,
                              <<Null, Null>>, now).success

\* C21: when the 'payment verified' notification fails after a successful
\* verification, the verification stays committed (payment 'verified', tier
\* and total_spent updated, the same state as with a delivered notification)
\* and the admin still gets the success reply.
C21_NotificationFailureKeepsVerification ==
    \A u \in DOMAIN users, args \in VerifyArgs :
        PendingRows(payments, u) # {} =>
            LET i      == Val(SelectPendingPayment(payments, u))
                sent   == VerifyCommand(users, payments, campaigns, ADMIN_ID,
                                        u, args, TRUE, now)
                failed == VerifyCommand(users, payments, campaigns, ADMIN_ID,
                                        u, args, FALSE, now)
            IN  /\ failed.success /\ ~failed.notified
                /\ failed.reply = "verified"
                /\ failed.payments[i].status = "verified"
                /\ failed.users[u].tier = NewTier(failed.payments[i].plan)
                /\ failed.users[u].tier_expires_at = Some(now + TIER_PERIOD)
                /\ failed.users[u].total_spent
                      = users[u].total_spent + failed.payments[i].amount
                /\ failed.users = sent.users
                /\ failed.payments = sent.payments
                /\ failed.campaigns = sent.campaigns

\* the admin verifies a user's pending payment and the notification to the
\* user fails
C21_Witness ==
    \E u \in DOMAIN users :
        /\ PendingRows(payments, u) # {}
        /\ LET failed == VerifyCommand(users, payments, campaigns, ADMIN_ID,
                                       u, <<Null, Null>>, FALSE, now)
           IN  failed.success /\ ~failed.notified

\* C22: in every reachable state every account's balance is non-negative:
\* no verification, whatever the campaign discount or the admin's amount,
\* credits a referrer with a negative reward.
C22_BalanceNonNegative ==
    \A u \in DOMAIN users :
        users[u].balance >= 0 /\ users[u].total_earned >= 0

\* C23: create_or_update_user_v2 for a user id that already has an account
\* changes no stored field that is modelled (only last_active) and returns
\* the existing referral code.
C23_RepeatCallKeepsEveryField ==
    \A u \in DOMAIN users, profile \in ChangedProfiles, suffix \in Suffixes :
        LET made == create_or_update_user_v2(users, u, profile[1], profile[2],
                                             suffix, now)
        IN  /\ made.referral_code = users[u].referral_code
            /\ made.users = users

\* C23, amended: create_or_update_user_v2 for a user id that already has an
\* account overwrites username and full_name with the values passed (and
\* last_active), keeps every other stored field of that account and every
\* other account, and returns the existing referral code.
C23_RepeatCallChangesProfileOnly ==
    \A u \in DOMAIN users, profile \in ChangedProfiles, suffix \in Suffixes :
        LET made == create_or_update_user_v2(users, u, profile[1], profile[2],
                                             suffix, now)
        IN  /\ made.referral_code = users[u].referral_code
            /\ DOMAIN made.users = DOMAIN users
            /\ \A v \in DOMAIN users \ {u} : made.users[v] = users[v]
            /\ made.users[u].username = profile[1]
            /\ made.users[u].full_name = profile[2]
            /\ made.users[u] = [users[u] EXCEPT !.username = profile[1],
                                                !.full_name = profile[2]]

\* an account with a paid tier, a referrer and a verified payment, stored
\* under the changed profile, for which /start may arrive under either profile
C23_Witness ==
    \E u \in DOMAIN users :
        /\ users[u].tier # "basic"
        /\ users[u].total_spent > 0
        /\ ~IsNull(users[u].referred_by)
        /\ users[u].username = "abel_t"

\* C24: a successful verify_payment_v2 sets the user's tier to the resolved
\* tier (the payment's plan, or the admin's plan when one is given), sets
\* tier_expires_at to now + 30 days, adds final_amount to total_spent and sets
\* monthly_transactions and monthly_listings to 0.
C24_VerifySetsResolvedTier ==
    \A u \in DOMAIN users, args \in VerifyArgs :
        LET done == VerifyPaymentV2(users, payments, campaigns, u, ADMIN_ID,
                                    args[1], args[2], now)
        IN  done.success =>
            LET i == Val(SelectPendingPayment(payments, u))
            IN  /\ done.users[u].tier = ActualPlan(args[2], payments[i])
                /\ done.users[u].tier_expires_at = Some(now + TIER_PERIOD)
                /\ done.users[u].total_spent - users[u].total_spent
                      = done.payments[i].amount
                /\ done.users[u].monthly_transactions = 0
                /\ done.users[u].monthly_listings = 0

\* C25: verify_payment_v2 for a user with no pending payment returns
\* (False, 'No pending payment found') and changes no payment, account or
\* campaign state.
C25_NoPendingNoChange ==
    \A u \in UserIds, args \in VerifyArgs :
        PendingRows(payments, u) = {} =>
            LET done == VerifyPaymentV2(users, payments, campaigns, u,
                                        ADMIN_ID, args[1], args[2], now)
            IN  /\ ~done.success
                /\ done.message = "No pending payment found"
                /\ done.users = users
                /\ done.payments = payments
                /\ done.campaigns = campaigns

\* a user all of whose payments are verified or expired, with both kinds
\* present, so the table has rows of the user but none pending
C25_Witness ==
    \E u \in DOMAIN users :
        /\ PendingRows(payments, u) = {}
        /\ \E i \in DOMAIN payments :
              payments[i].user_id = u /\ payments[i].status = "verified"
        /\ \E i \in DOMAIN payments :
              payments[i].user_id = u /\ payments[i].status = "expired"

\* C26: the monthly reset is safe to run more than once in the same period:
\* once a scheduled run has reset the counters, usage recorded afterwards is
\* kept by a later scheduled run of the same period, which changes no
\* account's monthly_transactions or monthly_listings.
C26_SecondResetKeepsUsage ==
    \A u \in DOMAIN users, action \in {"payment", "listing"} :
        LET first == MonthlyReset(users, now)
            used  == increment_counter(first, u, action)
            again == MonthlyReset(used, now)
        IN  \A v \in DOMAIN users :
                UsageCounters(again, v) = UsageCounters(used, v)

\* C27: no payment becomes 'verified' after its expires_at has passed: every
\* verified payment was verified at a time not later than its expires_at,
\* whether or not the sweep had marked it by then.
C27_NeverVerifiedAfterExpiry ==
    \A i \in DOMAIN payments :
        payments[i].status = "verified" =>
            Val(payments[i].verified_at) <= Val(payments[i].expires_at)

\* C28: whenever no handler is in the middle of its statements, every
\* account's total_spent equals the sum of the amount column over that
\* account's payments with status 'verified' (so the revenue the admin
\* dashboard sums from verified payments equals the sum of total_spent).
C28_TotalSpentIsVerifiedSum ==
    AllIdle =>
        \A u \in DOMAIN users :
            users[u].total_spent
              = SumAmounts(payments,
                           {i \in DOMAIN payments :
                               /\ payments[i].user_id = u
                               /\ payments[i].status = "verified"})

\* C29: when time keeps advancing and the scheduled job keeps running, every
\* payment that is 'pending' is eventually 'verified' or 'expired'.
C29_PendingEventuallyLeaves ==
    \A i \in 1..MaxLivePayments :
        (i \in DOMAIN payments /\ payments[i].status = "pending")
          ~> (i \in DOMAIN payments
              /\ payments[i].status \in {"verified", "expired"})

\* every payment row the table may hold has been created and none was
\* verified: the scheduled job has expired them all
C29_Witness ==
    /\ Len(payments) = MaxLivePayments
    /\ \A i \in DOMAIN payments :
          payments[i].status = "expired" /\ IsNull(payments[i].verified_by)

\* the amounts the admin may give as the second argument of /verify, in santim
OverrideAmounts == {0, 5000}

\* C30: when the admin passes an override amount a to /verify, a = 0 included,
\* verify_payment_v2 takes a, not the payment's stored amount, as the base
\* amount: the amount recorded on the verified payment and added to
\* total_spent is a after the campaign's discount.
C30_OverrideAmountIsBase ==
    \A u \in DOMAIN users, a \in OverrideAmounts :
        PendingRows(payments, u) # {} =>
            LET i        == Val(SelectPendingPayment(payments, u))
                done     == VerifyPaymentV2(users, payments, campaigns, u,
                                            ADMIN_ID, Some(a), Null, now)
                campaign == SelectCampaign(campaigns, payments[i].campaign_id,
                                           now)
                derived  == IF IsNull(campaign) THEN a * 100
                            ELSE FinalAmount(campaigns[Val(campaign)], a)
            IN  /\ done.payments[i].amount = ToColumn(derived)
                /\ done.users[u].total_spent - users[u].total_spent
                      = ToColumn(derived)

====
